---- MODULE Spec2Model ----
(***************************************************************************)
(* Model of ScalePolygonAnnotation.py: validate_environment,               *)
(* create_scale_task ("submit") and main, together with the part of the    *)
(* requests library the script relies on (the exception class hierarchy,   *)
(* Response.raise_for_status, Response.json) and Python's `in` and         *)
(* subscript semantics on the parsed reply.                                 *)
(*                                                                         *)
(* Optional values (Optional[str], an omitted keyword argument, a pending  *)
(* exception) are sequences of length 0 or 1: None is << >>, a value v is  *)
(* << v >>.                                                                *)
(***************************************************************************)
EXTENDS Integers, Sequences, FiniteSets, TLC

VARIABLES
    environ,        \* os.environ.get('SCALE_API_KEY'): None or <<string>>
    entry,          \* which function the process/caller invoked
    config,         \* keyword arguments given to create_scale_task
    pc,             \* position of the control flow
    called,         \* validate_environment() has been called
    api_key,        \* value validate_environment returned / local api_key
    payload,        \* local `payload` of create_scale_task
    posts,          \* every requests.post call made, in order
    reply,          \* the Response object requests.post returned
    exc,            \* the exception currently propagating
    result,         \* value create_scale_task returned to its caller
    stderr,         \* lines printed with file=sys.stderr
    stdout,         \* lines printed to standard output
    exit_code,      \* status the process exited with
    traceback       \* an uncaught exception reached the interpreter's top level

vars == << environ, entry, config, pc, called, api_key, payload, posts, reply,
           exc, result, stderr, stdout, exit_code, traceback >>

None == << >>

Some(v) == << v >>

\* ------------------------------------------------------------------ bounds
MaxLabels == 3

LabelNames == {"car", "truck", "bus"}

\* ------------------------------------------------------- program constants
RequestTimeout == 30

ENDPOINT == "https://api.scale.com/v1/task/polygonannotation"

DEFAULT_CALLBACK_URL == "https://scale-demo.herokuapp.com/scale/callback"

DEFAULT_ATTACHMENT == "https://scale.com/static/img/website/index/example-ia-boxes.jpg"

DEFAULT_INSTRUCTION == "Draw a tight polygon around every **car** in the image."

DEFAULT_OBJECTS == << "car", "suv" >>

DEFAULT_WITH_LABELS == TRUE

DEFAULT_ATTACHMENT_TYPE == "image"

\* --------------------------------------------------------------- inputs
LabelSeqs == UNION { [1..n -> LabelNames] : n \in 0..MaxLabels }

EnvValues == { None, Some(""), Some("env_key"), Some("sk_live_2") }

KeyArgs == { None, Some(""), Some("arg_key") }

\* Keyword arguments of a direct call of create_scale_task; None = omitted.
\* callback_url, attachment and instruction pass through unchanged and are
\* overridden together or not at all.
SubmitConfigs ==
    { [ callback_url        |-> o.cb,
        objects_to_annotate |-> ob,
        attachment          |-> o.att,
        instruction         |-> o.ins,
        with_labels         |-> wl,
        attachment_type     |-> at,
        api_key             |-> k ] :
      o  \in { [cb |-> None, att |-> None, ins |-> None],
               [cb |-> Some("https://my-custom-server.com/callback"),
                att |-> Some("https://example.com/my-image.jpg"),
                ins |-> Some("Annotate all vehicles")] },
      ob \in { None } \cup { Some(s) : s \in LabelSeqs },
      wl \in { None, Some(FALSE) },
      at \in { None, Some("video") },
      k  \in KeyArgs }

\* What argparse hands to main: --objects is nargs='+' with a default, the
\* three string flags have defaults.
MainArgs ==
    { [ callback_url |-> o.cb, objects |-> ob, image_url |-> o.att,
        instruction |-> o.ins ] :
      o  \in { [cb |-> DEFAULT_CALLBACK_URL, att |-> DEFAULT_ATTACHMENT,
                ins |-> DEFAULT_INSTRUCTION],
               [cb |-> "https://my-custom-server.com/callback",
                att |-> "https://example.com/my-image.jpg",
                ins |-> "Annotate all vehicles"] },
      ob \in { DEFAULT_OBJECTS } \cup { s \in LabelSeqs : Len(s) >= 1 } }

NoConfig ==
    [ callback_url |-> None, objects_to_annotate |-> None, attachment |-> None,
      instruction |-> None, with_labels |-> None, attachment_type |-> None,
      api_key |-> None ]

\* ------------------------------------------------- remote replies (JSON)
\* A reply body.  t is the kind of value Response.json() yields ("text" is a
\* body that is not JSON); obj holds an object's <<key, value>> pairs, arr an
\* array's items, chars a string's characters, num a number.
JBody(t, obj, arr, chars, num) ==
    [ t |-> t, obj |-> obj, arr |-> arr, chars |-> chars, num |-> num ]

TaskIdChars == << "t", "a", "s", "k", "_", "i", "d" >>

Bodies ==
    { JBody("object", { <<"task_id", "abc123">> }, << >>, << >>, 0),
      JBody("object", { <<"task_id", "abc123">>, <<"status", "pending">> }, << >>, << >>, 0),
      JBody("object", { <<"error", "bad request">> }, << >>, << >>, 0),
      JBody("array",  {}, << "task_id" >>, << >>, 0),
      JBody("array",  {}, << "oops" >>, << >>, 0),
      JBody("string", {}, << >>, << "x" >> \o TaskIdChars, 0),
      JBody("number", {}, << >>, << >>, 5),
      JBody("null",   {}, << >>, << >>, 0),
      JBody("text",   {}, << >>, << "<", "h", "1", ">" >>, 0) }

Statuses == { 200, 201, 304, 404, 500 }

Is2xx(status) == status >= 200 /\ status < 300

\* The body is a JSON object with a field named key.
HasField(body, key) == body.t = "object" /\ \E p \in body.obj : p[1] = key

Field(body, key) == (CHOOSE p \in body.obj : p[1] = key)[2]

\* ------------------------------------------------ exceptions (requests)
\* The classes an exception of class cls is an instance of.
Bases(cls) ==
    CASE cls = "ConnectTimeout"   -> { "ConnectTimeout", "ConnectionError", "Timeout",
                                       "RequestException", "Exception", "BaseException" }
      [] cls = "ReadTimeout"      -> { "ReadTimeout", "Timeout", "RequestException",
                                       "Exception", "BaseException" }
      [] cls = "ConnectionError"  -> { "ConnectionError", "RequestException",
                                       "Exception", "BaseException" }
      [] cls = "HTTPError"        -> { "HTTPError", "RequestException",
                                       "Exception", "BaseException" }
      [] cls = "TooManyRedirects" -> { "TooManyRedirects", "RequestException",
                                       "Exception", "BaseException" }
      [] cls = "JSONDecodeError"  -> { "JSONDecodeError", "InvalidJSONError",
                                       "RequestException", "ValueError",
                                       "Exception", "BaseException" }
      [] cls = "ValueError"       -> { "ValueError", "Exception", "BaseException" }
      [] cls = "KeyError"         -> { "KeyError", "LookupError", "Exception",
                                       "BaseException" }
      [] cls = "TypeError"        -> { "TypeError", "Exception", "BaseException" }
      [] cls = "KeyboardInterrupt" -> { "KeyboardInterrupt", "BaseException" }
      [] cls = "SystemExit"       -> { "SystemExit", "BaseException" }

\* An exception object: its class, the status and body of the response it
\* carries (e.response; status 0 and body None when it carries none), the
\* reply body its message str(e) quotes (None when it quotes none), and the
\* operation that raised it.
Exc(cls, status, body, msg, by) ==
    [ cls |-> cls, status |-> status, body |-> body, msg |-> msg, by |-> by ]

\* What requests.post raises instead of returning a response, plus Ctrl-C
\* during the blocking call.
PostFailures ==
    { "ConnectTimeout", "ReadTimeout", "ConnectionError", "TooManyRedirects",
      "KeyboardInterrupt" }

\* Response.raise_for_status(): raises HTTPError for 4xx and 5xx.
RaisesForStatus(status) == status >= 400 /\ status < 600

\* Response.json() on a body that is not JSON: requests >= 2.27 raises its
\* own JSONDecodeError (a RequestException and a ValueError), older versions
\* raise the json module's error (a ValueError only).
JsonFailures == { "JSONDecodeError", "ValueError" }

\* ------------------------------------------------ Python's `x in value`
IsSubSeq(sub, s) ==
    \E i \in 0..(Len(s) - Len(sub)) : SubSeq(s, i + 1, i + Len(sub)) = sub

\* 'task_id' in task_response: "raise" stands for TypeError (the value is
\* not a container).
PyIn(key, chars, body) ==
    CASE body.t = "object" -> IF \E p \in body.obj : p[1] = key THEN "true" ELSE "false"
      [] body.t = "array"  -> IF \E i \in DOMAIN body.arr : body.arr[i] = key
                              THEN "true" ELSE "false"
      [] body.t = "string" -> IF IsSubSeq(chars, body.chars) THEN "true" ELSE "false"
      [] OTHER             -> "raise"

\* task_response['task_id'] in main: "ok", or the class of the exception.
PyGetItem(body, key) ==
    CASE body.t = "object" -> IF \E p \in body.obj : p[1] = key THEN "ok" ELSE "KeyError"
      [] OTHER             -> "TypeError"

\* ------------------------------------------------------------ printing
\* A line on the error stream: who printed it, which message, and the status
\* and reply body the message contains (0 / None when it contains none).
Diag(by, clause, status, body) ==
    [ by |-> by, clause |-> clause, status |-> status, body |-> body ]

Line(what, text) == [ what |-> what, text |-> text ]

\* ------------------------------------------------- validate_environment
\* Python truthiness of an Optional[str]: `not api_key`.
Falsy(v) == v = None \/ v = Some("")

\* Variant of validate_environment that tests `api_key is None`.
validate_environment_none_only(env) ==
    IF env = None
    THEN [ ret  |-> None,
           exit |-> Some(1),
           err  |-> << Diag("validate_environment", "not set", 0, None),
                       Diag("validate_environment", "please set", 0, None) >> ]
    ELSE [ ret |-> env, exit |-> None, err |-> << >> ]

\* Variant of validate_environment that falls off the end without `return`.
validate_environment_no_return(env) ==
    IF Falsy(env)
    THEN [ ret  |-> None,
           exit |-> Some(1),
           err  |-> << Diag("validate_environment", "not set", 0, None),
                       Diag("validate_environment", "please set", 0, None) >> ]
    ELSE [ ret |-> None, exit |-> None, err |-> << >> ]

validate_environment(env) ==
    IF Falsy(env)
    THEN [ ret  |-> None,
           exit |-> Some(1),
           err  |-> << Diag("validate_environment", "not set", 0, None),
                       Diag("validate_environment", "please set", 0, None) >> ]
    ELSE [ ret |-> env, exit |-> None, err |-> << >> ]

\* ---------------------------------------------------- create_scale_task
\* A keyword argument, or the default of the signature when it is omitted.
Arg(v, default) == IF v = None THEN default ELSE v[1]

\* Variant of Objects that tests `if not objects_to_annotate`.
Objects_falsy(o) == IF o = None \/ o = Some(<< >>) THEN DEFAULT_OBJECTS ELSE o[1]

\* if objects_to_annotate is None: objects_to_annotate = ['car', 'suv']
Objects(o) == IF o = None THEN DEFAULT_OBJECTS ELSE o[1]

Payload(cfg) ==
    [ callback_url        |-> Arg(cfg.callback_url, DEFAULT_CALLBACK_URL),
      objects_to_annotate |-> Objects(cfg.objects_to_annotate),
      attachment          |-> Arg(cfg.attachment, DEFAULT_ATTACHMENT),
      with_labels         |-> Arg(cfg.with_labels, DEFAULT_WITH_LABELS),
      instruction         |-> Arg(cfg.instruction, DEFAULT_INSTRUCTION),
      attachment_type     |-> Arg(cfg.attachment_type, DEFAULT_ATTACHMENT_TYPE) ]

\* if api_key is None: (the environment is consulted)
NeedsEnvironment(k) == k = None

\* The arguments of requests.post.
Request(pl, key) ==
    [ url     |-> ENDPOINT,
      json    |-> pl,
      headers |-> { <<"Content-Type", "application/json">> },
      auth    |-> << key, "" >>,
      timeout |-> RequestTimeout ]

\* Variant of Handlers with the ConnectionError clause ahead of Timeout.
Handlers_connection_first ==
    << [ catch |-> { "ConnectionError" },      name |-> "ConnectionError" ],
       [ catch |-> { "Timeout" },              name |-> "Timeout" ],
       [ catch |-> { "HTTPError" },            name |-> "HTTPError" ],
       [ catch |-> { "RequestException" },     name |-> "RequestException" ],
       [ catch |-> { "KeyError", "ValueError" }, name |-> "KeyError/ValueError" ] >>

\* The except clauses of create_scale_task, in source order.
Handlers ==
    << [ catch |-> { "Timeout" },              name |-> "Timeout" ],
       [ catch |-> { "ConnectionError" },      name |-> "ConnectionError" ],
       [ catch |-> { "HTTPError" },            name |-> "HTTPError" ],
       [ catch |-> { "RequestException" },     name |-> "RequestException" ],
       [ catch |-> { "KeyError", "ValueError" }, name |-> "KeyError/ValueError" ] >>

\* The except clauses of main, in source order.
MainHandlers ==
    << [ catch |-> { "RequestException", "KeyError", "ValueError" }, name |-> "failed" ],
       [ catch |-> { "KeyboardInterrupt" },    name |-> "cancelled" ] >>

\* Index of the first clause of hs that catches an exception of class cls, 0
\* when none does.
Handler(hs, cls) ==
    LET m == { i \in DOMAIN hs : hs[i].catch \cap Bases(cls) # {} }
    IN  IF m = {} THEN 0 ELSE CHOOSE i \in m : \A j \in m : i <= j

\* What a clause of create_scale_task prints for the exception e.
HandlerDiag(name, e) ==
    CASE name = "HTTPError" -> Diag("create_scale_task", name, e.status, e.body)
      [] name \in { "RequestException", "KeyError/ValueError" }
                            -> Diag("create_scale_task", name, 0, e.msg)
      [] OTHER              -> Diag("create_scale_task", name, 0, None)

\* Lines 106-116: the outcomes of validating the response r, as the set of
\* records [ret, exc] the build can produce.
ResponseOutcomes(r) ==
    IF RaisesForStatus(r.status)
    THEN { [ ret |-> None,
             exc |-> Some(Exc("HTTPError", r.status, Some(r.body), None,
                              "raise_for_status")) ] }
    ELSE IF r.body.t = "text"
    THEN { [ ret |-> None, exc |-> Some(Exc(c, 0, None, None, "json")) ] :
           c \in JsonFailures }
    ELSE LET found == PyIn("task_id", TaskIdChars, r.body)
         IN  IF found = "raise"
             THEN { [ ret |-> None,
                      exc |-> Some(Exc("TypeError", 0, None, None, "in")) ] }
             ELSE IF found = "false"
             THEN { [ ret |-> None,
                      exc |-> Some(Exc("ValueError", 0, None, Some(r.body),
                                       "check")) ] }
             ELSE { [ ret |-> Some(r.body), exc |-> None ] }

\* ---------------------------------------------------------------- Init
Init ==
    /\ environ \in EnvValues
    /\ entry = "none"
    /\ config = NoConfig
    /\ pc = "start"
    /\ called = FALSE
    /\ api_key = None
    /\ payload = None
    /\ posts = << >>
    /\ reply = None
    /\ exc = None
    /\ result = None
    /\ stderr = << >>
    /\ stdout = << >>
    /\ exit_code = None
    /\ traceback = FALSE

\* ------------------------------------------------------------- actions
\* A caller invokes validate_environment() directly.
CallValidate ==
    /\ pc = "start"
    /\ LET r == validate_environment(environ)
       IN  /\ api_key' = r.ret
           /\ stderr' = stderr \o r.err
           /\ exit_code' = r.exit
           /\ pc' = IF r.exit # None THEN "exited" ELSE "validated"
    /\ entry' = "validate"
    /\ called' = TRUE
    /\ UNCHANGED << environ, config, payload, posts, reply, exc, result, stdout,
                    traceback >>

\* A caller invokes create_scale_task(**cfg) directly.
CallSubmit ==
    /\ pc = "start"
    /\ \E cfg \in SubmitConfigs : config' = cfg
    /\ entry' = "submit"
    /\ pc' = "submit"
    /\ UNCHANGED << environ, called, api_key, payload, posts, reply, exc, result,
                    stderr, stdout, exit_code, traceback >>

\* main: parse the arguments, print the banner, enter the try block and call
\* create_scale_task with the four parsed arguments.
RunMain ==
    /\ pc = "start"
    /\ \E args \in MainArgs :
         config' = [ NoConfig EXCEPT
                       !.callback_url = Some(args.callback_url),
                       !.objects_to_annotate = Some(args.objects),
                       !.attachment = Some(args.image_url),
                       !.instruction = Some(args.instruction) ]
    /\ entry' = "main"
    /\ stdout' = Append(stdout, Line("Starting", ""))
    /\ pc' = "submit"
    /\ UNCHANGED << environ, called, api_key, payload, posts, reply, exc, result,
                    stderr, exit_code, traceback >>

\* create_scale_task, lines 73-89: defaults, credential, payload.
Prepare ==
    /\ pc = "submit"
    /\ IF NeedsEnvironment(config.api_key)
       THEN LET r == validate_environment(environ)
            IN  /\ called' = TRUE
                /\ stderr' = stderr \o r.err
                /\ api_key' = r.ret
                /\ exit_code' = r.exit
                /\ IF r.exit # None
                   THEN pc' = "exited" /\ payload' = payload
                   ELSE pc' = "post" /\ payload' = Some(Payload(config))
       ELSE /\ api_key' = config.api_key
            /\ payload' = Some(Payload(config))
            /\ pc' = "post"
            /\ UNCHANGED << called, stderr, exit_code >>
    /\ UNCHANGED << environ, entry, config, posts, reply, exc, result, stdout,
                    traceback >>

\* Lines 94-104, requests.post returns a response.
PostReplies ==
    /\ pc = "post"
    /\ stdout' = Append(stdout, Line("Sending request", ""))
    /\ posts' = Append(posts, Request(payload[1], api_key[1]))
    /\ \E st \in Statuses, b \in Bodies : reply' = Some([ status |-> st, body |-> b ])
    /\ pc' = "response"
    /\ UNCHANGED << environ, entry, config, called, api_key, payload, exc, result,
                    stderr, exit_code, traceback >>

\* Lines 94-104, requests.post raises (or the user interrupts the call).
PostFails ==
    /\ pc = "post"
    /\ stdout' = Append(stdout, Line("Sending request", ""))
    /\ posts' = Append(posts, Request(payload[1], api_key[1]))
    /\ \E c \in PostFailures : exc' = Some(Exc(c, 0, None, None, "post"))
    /\ pc' = "except"
    /\ UNCHANGED << environ, entry, config, called, api_key, payload, reply, result,
                    stderr, exit_code, traceback >>

\* Lines 106-116: raise_for_status, json, the task_id check, return.
CheckResponse ==
    /\ pc = "response"
    /\ \E o \in ResponseOutcomes(reply[1]) :
         /\ result' = o.ret
         /\ exc' = o.exc
         /\ pc' = IF o.exc # None THEN "except" ELSE "returned"
    /\ UNCHANGED << environ, entry, config, called, api_key, payload, posts, reply,
                    stderr, stdout, exit_code, traceback >>

\* Lines 118-132: the first matching except clause prints and re-raises; an
\* exception no clause matches propagates unprinted.
Except ==
    /\ pc = "except"
    /\ LET h == Handler(Handlers, exc[1].cls)
       IN  stderr' = IF h = 0 THEN stderr
                     ELSE Append(stderr, HandlerDiag(Handlers[h].name, exc[1]))
    /\ pc' = "raised"
    /\ UNCHANGED << environ, entry, config, called, api_key, payload, posts, reply,
                    exc, result, stdout, exit_code, traceback >>

\* main, lines 181-187: report the task; a failing subscript raises inside
\* main's try block.
MainReport ==
    /\ entry = "main"
    /\ pc = "returned"
    /\ LET got == PyGetItem(result[1], "task_id")
       IN  IF got = "ok"
           THEN /\ stdout' = stdout
                      \o << Line("Task created", Field(result[1], "task_id")) >>
                      \o ( IF PyIn("status", << >>, result[1]) = "true"
                           THEN << Line("Task status", Field(result[1], "status")) >>
                           ELSE << >> )
                /\ exit_code' = Some(0)
                /\ pc' = "done"
                /\ exc' = exc
           ELSE /\ exc' = Some(Exc(got, 0, None, None, "main"))
                /\ pc' = "raised"
                /\ UNCHANGED << stdout, exit_code >>
    /\ UNCHANGED << environ, entry, config, called, api_key, payload, posts, reply,
                    result, stderr, traceback >>

\* main, lines 189-194: the two except clauses; anything else is uncaught and
\* the interpreter prints a traceback and exits with status 1.
MainExcept ==
    /\ entry = "main"
    /\ pc = "raised"
    /\ LET h == Handler(MainHandlers, exc[1].cls)
       IN  /\ stderr' = IF h = 0 THEN stderr
                        ELSE Append(stderr, Diag("main", MainHandlers[h].name, 0,
                                                 IF MainHandlers[h].name = "failed"
                                                 THEN exc[1].msg ELSE None))
           /\ traceback' = (h = 0)
    /\ exit_code' = Some(1)
    /\ pc' = "done"
    /\ UNCHANGED << environ, entry, config, called, api_key, payload, posts, reply,
                    exc, result, stdout >>

Next ==
    \/ CallValidate
    \/ CallSubmit
    \/ RunMain
    \/ Prepare
    \/ PostReplies
    \/ PostFails
    \/ CheckResponse
    \/ Except
    \/ MainReport
    \/ MainExcept

Spec == Init /\ [][Next]_vars

\* ---------------------------------------------------------- properties
\* The lines create_scale_task itself printed on the error stream.
SubmitDiags == SelectSeq(stderr, LAMBDA d : d.by = "create_scale_task")

\* create_scale_task has returned or raised to its caller.
SubmitDone == pc \in { "returned", "raised", "done" }

\* C1: whenever validate_environment has been called in an environment where
\* SCALE_API_KEY is absent or empty, the process has exited with status 1,
\* the error stream holds validate_environment's diagnostic, and no value was
\* returned (nothing was resolved, built or sent).
C1_MissingCredentialExits ==
    (called /\ environ \in { None, Some("") }) =>
        /\ pc = "exited"
        /\ exit_code = Some(1)
        /\ api_key = None
        /\ payload = None /\ posts = << >> /\ result = None
        /\ Len(stderr) >= 1
        /\ \A i \in DOMAIN stderr : stderr[i].by = "validate_environment"

C1_Witness ==
    called /\ environ = Some("") /\ pc = "exited" /\ exit_code = Some(1)

\* C9: whenever validate_environment has been called in an environment where
\* SCALE_API_KEY is present and non-empty, it returned exactly that string,
\* printed nothing and did not exit the process.
C9_PresentCredentialReturned ==
    (called /\ environ \notin { None, Some("") }) =>
        /\ api_key = environ
        /\ pc # "exited"
        /\ \A i \in DOMAIN stderr : stderr[i].by # "validate_environment"

C9_Witness ==
    /\ entry = "validate" /\ called /\ pc = "validated"
    /\ environ = Some("sk_live_2") /\ api_key = Some("sk_live_2")

\* C8: the JSON payload of every request sent equals the configuration with
\* the defaults applied to the omitted fields: labels ["car","suv"],
\* with_labels true and attachment_type "image" when omitted, and a given
\* label list is sent as exactly that sequence.
C8_PayloadIsConfigWithDefaults ==
    \A i \in DOMAIN posts :
        LET p == posts[i].json
        IN  /\ config.objects_to_annotate = None
                  => p.objects_to_annotate = << "car", "suv" >>
            /\ config.objects_to_annotate # None
                  => p.objects_to_annotate = config.objects_to_annotate[1]
            /\ config.with_labels = None => p.with_labels = TRUE
            /\ config.with_labels # None => p.with_labels = config.with_labels[1]
            /\ config.attachment_type = None => p.attachment_type = "image"
            /\ config.attachment_type # None
                  => p.attachment_type = config.attachment_type[1]
            /\ config.callback_url # None => p.callback_url = config.callback_url[1]
            /\ config.attachment # None => p.attachment = config.attachment[1]
            /\ config.instruction # None => p.instruction = config.instruction[1]

C8_Witness ==
    /\ Len(posts) = 1
    /\ config.objects_to_annotate = Some(<< "car", "truck", "bus" >>)
    /\ posts[1].json.objects_to_annotate = << "car", "truck", "bus" >>
    /\ config.with_labels = None /\ posts[1].json.with_labels = TRUE

\* C5: once create_scale_task has handled a failure of the Timeout class
\* (a read timeout, or a connect timeout, which is also a ConnectionError),
\* the one diagnostic it printed is the timeout one and the exception that
\* propagates is that timeout.
C5_TimeoutClassifiedAsTimeout ==
    (SubmitDone /\ exc # None /\ exc[1].by = "post"
       /\ exc[1].cls \in { "ConnectTimeout", "ReadTimeout" }) =>
        SubmitDiags = << Diag("create_scale_task", "Timeout", 0, None) >>

C5_Witness ==
    /\ pc = "raised" /\ exc # None /\ exc[1].cls = "ConnectTimeout"
    /\ SubmitDiags = << Diag("create_scale_task", "Timeout", 0, None) >>

\* What C4 promises of a failed status: no Job Response, an HTTPError that
\* carries the reply's status and body, and one diagnostic showing both.
HttpFailureReported ==
    /\ result = None
    /\ exc # None
    /\ exc[1].cls = "HTTPError"
    /\ exc[1].status = reply[1].status
    /\ exc[1].body = Some(reply[1].body)
    /\ SubmitDiags = << Diag("create_scale_task", "HTTPError", reply[1].status,
                             Some(reply[1].body)) >>

\* C4: for every reply whose status is not 2xx, create_scale_task fails with
\* an HTTPError carrying the status and body, prints a diagnostic, and
\* returns no Job Response.
C4_NonSuccessStatusIsHttpError ==
    (SubmitDone /\ reply # None /\ ~Is2xx(reply[1].status)) => HttpFailureReported

\* C2: create_scale_task returns a value only when the reply is 2xx and its
\* body is an object with a task_id field, and the returned identifier is the
\* reply's identifier.
C2_ReturnsOnlyIdentifiedReply ==
    result # None =>
        /\ reply # None
        /\ Is2xx(reply[1].status)
        /\ HasField(reply[1].body, "task_id")
        /\ HasField(result[1], "task_id")
        /\ Field(result[1], "task_id") = Field(reply[1].body, "task_id")

\* C3: for every 2xx reply whose body is not an object with a task_id field,
\* create_scale_task fails with the malformed-response error (the ValueError
\* of the task_id check) and has printed one diagnostic that contains the
\* body.
C3_MalformedReplyRejectedWithBody ==
    (SubmitDone /\ reply # None /\ Is2xx(reply[1].status)
       /\ ~HasField(reply[1].body, "task_id")) =>
        /\ result = None
        /\ exc # None
        /\ exc[1].cls = "ValueError" /\ exc[1].by = "check"
        /\ SubmitDiags = << Diag("create_scale_task", "KeyError/ValueError", 0,
                                 Some(reply[1].body)) >>

\* The exception create_scale_task raised comes from the remote call or from
\* validating its reply (not a user interrupt, not a later failure in main).
RemoteFailure ==
    /\ exc # None
    /\ exc[1].by \in { "post", "raise_for_status", "json", "in", "check" }
    /\ exc[1].cls # "KeyboardInterrupt"

\* C6: an invocation sends at most one POST, and once it has failed on the
\* remote call or its reply, create_scale_task has printed exactly one
\* diagnostic.
C6_OnePostOneDiagnostic ==
    /\ Len(posts) <= 1
    /\ (SubmitDone /\ RemoteFailure) => Len(SubmitDiags) = 1

\* C7: when main has finished, the exit status is 0 exactly when
\* create_scale_task returned a Job Response with a task_id and 1 otherwise,
\* every exit with status 1 left a diagnostic on the error stream, and no
\* uncaught exception reached the user.
C7_MainExitsCleanly ==
    (entry = "main" /\ pc \in { "done", "exited" }) =>
        /\ exit_code \in { Some(0), Some(1) }
        /\ exit_code = Some(0) <=> (result # None /\ HasField(result[1], "task_id"))
        /\ exit_code = Some(1) => Len(stderr) >= 1
        /\ traceback = FALSE

\* C10: every POST sent is authenticated with a non-empty credential.
C10_PostHasCredential ==
    \A i \in DOMAIN posts : posts[i].auth[1] # ""

====
